---- MODULE Spec2Model ----
(***************************************************************************)
(* Model of agent/native/src/main/cpp/agent.cpp: the JVMTI agent of IDE    *)
(* Perf.  The agent keeps one thread-local jlong (thread_allocations) that *)
(* the SampledObjectAlloc callback increases and that the native method    *)
(* countAllocationsForCurrentThread returns, and it sets the JVM up for    *)
(* heap sampling in Agent_OnAttach / Agent_OnLoad.                         *)
(*                                                                         *)
(* A jlong is 64 bits wide.  TLC's integers are 32 bits wide, so a 64-bit  *)
(* value v is written as three limbs <<h, m, l>> with                      *)
(*     v = h * 2^42 + m * 2^21 + l,   0 <= m, l < 2^21.                    *)
(* A jlong has -2^21 <= h < 2^21; a mathematical integer has any h.        *)
(***************************************************************************)
EXTENDS Integers, Sequences, FiniteSets, TLC

\* ------------------------------------------------------------------ bounds

\* Notifications delivered in one run, over all threads.
MaxNotifs == 3
\* Calls of Agent_OnAttach / Agent_OnLoad in one run.
MaxInits == 2

\* The native threads of the run.
Threads == {"A", "B"}

\* ------------------------------------------------------- 64-bit arithmetic

Limb == 2^21

\* The limbs of a number small enough for a 32-bit literal.
FromInt(n) == <<(n \div Limb) \div Limb, (n \div Limb) % Limb, n % Limb>>

\* Mathematical addition, limb by limb with carry (no width).
BigAdd(a, b) ==
    LET l == a[3] + b[3]
        m == a[2] + b[2] + (l \div Limb)
        h == a[1] + b[1] + (m \div Limb)
    IN  <<h, m % Limb, l % Limb>>

\* a < b
BigLess(a, b) ==
    \/ a[1] < b[1]
    \/ a[1] = b[1] /\ a[2] < b[2]
    \/ a[1] = b[1] /\ a[2] = b[2] /\ a[3] < b[3]

BigLeq(a, b) == a = b \/ BigLess(a, b)

\* The values a jlong can hold: -2^63 .. 2^63 - 1.
InJlong(a) == a[1] >= 0 - Limb /\ a[1] < Limb

JLONG_MAX == <<Limb - 1, Limb - 1, Limb - 1>>
JLONG_MIN == <<0 - Limb, 0, 0>>

\* Two's-complement reduction of a mathematical value to 64 bits.
WrapJlong(a) == <<((a[1] + Limb) % (2 * Limb)) - Limb, a[2], a[3]>>

\* std::max on two jlong values: returns a unless a < b.
StdMax(a, b) == IF BigLess(a, b) THEN b ELSE a

\* What a build can do with a signed addition that leaves the 64-bit range
\* (undefined behaviour): wrap around, or trap and end the process.
OverflowOutcomes == {"wrap", "trap"}

\* a + b on jlong: the set of results [value, trapped] the build can produce.
JlongAdd(a, b) ==
    LET sum == BigAdd(a, b)
    IN  IF InJlong(sum)
        THEN {[value |-> sum, trapped |-> FALSE]}
        ELSE {IF how = "wrap"
              THEN [value |-> WrapJlong(sum), trapped |-> FALSE]
              ELSE [value |-> a, trapped |-> TRUE] : how \in OverflowOutcomes}

\* --------------------------------------------------------------- constants

kHeapSamplingInterval == 256 * 1024
kHeapSamplingIntervalLong == FromInt(kHeapSamplingInterval)

\* The sizes a notification reports: below, at and above the interval, zero,
\* negative, and the ends of the 64-bit range.
Sizes ==
    {FromInt(0), FromInt(0 - 1), FromInt(100000), FromInt(kHeapSamplingInterval),
     FromInt(500000), JLONG_MAX, JLONG_MIN}

\* ------------------------------------------------------- the host (the JVM)

JNI_OK == 0
JNI_ERR == -1
JVMTI_ERROR_NONE == 0

\* What vm->GetEnv can return: success, or a failure status.
GetEnvResults == {JNI_OK, JNI_ERR}

\* The error codes a failing JVMTI call returns in a run, with the names
\* GetErrorName gives them.
JvmtiFailures == {98, 110}
ErrorNameOf(err) ==
    IF err = 98 THEN "JVMTI_ERROR_NOT_AVAILABLE" ELSE "JVMTI_ERROR_OUT_OF_MEMORY"

\* The JVM state the agent's calls change: the capabilities it holds, the
\* registered SampledObjectAlloc callback, the heap sampling interval
\* (<<>> until the agent sets one) and the notification mode of the event.
FreshVm ==
    [capabilities |-> {}, callbacks |-> "none", interval |-> <<>>,
     mode |-> "disabled"]

\* The outcomes the host gives one run of the initialization: the status of
\* GetEnv, the error of each of the four JVMTI calls in order, and whether
\* GetErrorName finds a name.  A call that is not reached has no outcome, so
\* everything after the first failure is fixed.
StepNames ==
    <<"AddCapabilities", "SetEventCallbacks", "SetHeapSamplingInterval",
      "SetEventNotificationMode">>
NumSteps == Len(StepNames)

FirstFailure(o) ==
    IF o.getEnv # JNI_OK THEN 0
    ELSE IF \E k \in 1..NumSteps : o.errs[k] # JVMTI_ERROR_NONE
         THEN CHOOSE k \in 1..NumSteps :
                 /\ o.errs[k] # JVMTI_ERROR_NONE
                 /\ \A j \in 1..(k - 1) : o.errs[j] = JVMTI_ERROR_NONE
         ELSE NumSteps + 1

Outcomes ==
    {o \in [getEnv : GetEnvResults,
            errs : [1..NumSteps -> {JVMTI_ERROR_NONE} \cup JvmtiFailures],
            lookup : BOOLEAN] :
        /\ \A k \in 1..NumSteps :
              k > FirstFailure(o) => o.errs[k] = JVMTI_ERROR_NONE
        /\ (FirstFailure(o) = 0 \/ FirstFailure(o) > NumSteps) => o.lookup}

\* jvmti->GetErrorName(err, &name): name is left nullptr (<<>>) when the
\* lookup fails.
GetErrorName(err, lookupOk) == IF lookupOk THEN <<ErrorNameOf(err)>> ELSE <<>>

\* ---------------------------------------------------------- initialization

\* HandleJvmtiError with the error branch returning false as well: the
\* failure is reported but the caller goes on.
HandleJvmtiError_ReturnsFalse(err, msg, lookupOk) ==
    IF err = JVMTI_ERROR_NONE
    THEN [failed |-> FALSE, calls |-> <<>>, reports |-> <<>>]
    ELSE LET name == GetErrorName(err, lookupOk)
             desc == IF name # <<>> THEN name[1] ELSE "Unknown"
         IN  [failed |-> FALSE,
              calls |-> <<"GetErrorName", "Deallocate">>,
              reports |-> <<[kind |-> "JVMTI error", err |-> err,
                             desc |-> desc, msg |-> msg]>>]

\* HandleJvmtiError printing name without the nullptr test: a failed lookup
\* prints "(null)".
HandleJvmtiError_NoPlaceholder(err, msg, lookupOk) ==
    IF err = JVMTI_ERROR_NONE
    THEN [failed |-> FALSE, calls |-> <<>>, reports |-> <<>>]
    ELSE LET name == GetErrorName(err, lookupOk)
             desc == IF name # <<>> THEN name[1] ELSE "(null)"
         IN  [failed |-> TRUE,
              calls |-> <<"GetErrorName", "Deallocate">>,
              reports |-> <<[kind |-> "JVMTI error", err |-> err,
                             desc |-> desc, msg |-> msg]>>]

\* HandleJvmtiError: whether err is a failure, the host calls made and the
\* lines written to stderr.
HandleJvmtiError(err, msg, lookupOk) ==
    IF err = JVMTI_ERROR_NONE
    THEN [failed |-> FALSE, calls |-> <<>>, reports |-> <<>>]
    ELSE LET name == GetErrorName(err, lookupOk)
             desc == IF name # <<>> THEN name[1] ELSE "Unknown"
         IN  [failed |-> TRUE,
              calls |-> <<"GetErrorName", "Deallocate">>,
              reports |-> <<[kind |-> "JVMTI error", err |-> err,
                             desc |-> desc, msg |-> msg]>>]

\* The effect of a JVMTI call on the JVM: a failing call changes nothing.
AddCapabilities(vm, err) ==
    IF err = JVMTI_ERROR_NONE
    THEN [vm EXCEPT !.capabilities =
             @ \cup {"can_generate_sampled_object_alloc_events"}]
    ELSE vm
SetEventCallbacks(vm, err) ==
    IF err = JVMTI_ERROR_NONE
    THEN [vm EXCEPT !.callbacks = "SampledObjectAlloc"] ELSE vm
SetHeapSamplingInterval(vm, interval, err) ==
    IF err = JVMTI_ERROR_NONE
    THEN [vm EXCEPT !.interval = <<interval>>] ELSE vm
SetEventNotificationMode(vm, err) ==
    IF err = JVMTI_ERROR_NONE
    THEN [vm EXCEPT !.mode = "enabled for all threads"] ELSE vm

\* Agent_OnAttach with the last two steps exchanged: the event is enabled
\* before the sampling interval is set.
Agent_OnAttach_EnablesFirst(vm, o) ==
    IF o.getEnv # JNI_OK
    THEN [status |-> JNI_ERR, calls |-> <<"GetEnv">>,
          reports |-> <<[kind |-> "error", err |-> o.getEnv, desc |-> "",
                         msg |-> "Error retrieving JVMTI function table"]>>,
          vm |-> vm]
    ELSE
    LET vm1 == AddCapabilities(vm, o.errs[1])
        h1 == HandleJvmtiError(o.errs[1], "Failed to add JVMTI capabilities",
                               o.lookup)
        c1 == <<"GetEnv", "AddCapabilities">> \o h1.calls
    IN
    IF h1.failed
    THEN [status |-> JNI_ERR, calls |-> c1, reports |-> h1.reports, vm |-> vm1]
    ELSE
    LET vm2 == SetEventCallbacks(vm1, o.errs[2])
        h2 == HandleJvmtiError(o.errs[2], "Failed to set JVMTI callbacks",
                               o.lookup)
        c2 == c1 \o <<"SetEventCallbacks">> \o h2.calls
        r2 == h1.reports \o h2.reports
    IN
    IF h2.failed
    THEN [status |-> JNI_ERR, calls |-> c2, reports |-> r2, vm |-> vm2]
    ELSE
    LET vm3 == SetEventNotificationMode(vm2, o.errs[3])
        h3 == HandleJvmtiError(o.errs[3], "Failed to enable JVMTI events",
                               o.lookup)
        c3 == c2 \o <<"SetEventNotificationMode">> \o h3.calls
        r3 == r2 \o h3.reports
    IN
    IF h3.failed
    THEN [status |-> JNI_ERR, calls |-> c3, reports |-> r3, vm |-> vm3]
    ELSE
    LET vm4 == SetHeapSamplingInterval(vm3, kHeapSamplingInterval, o.errs[4])
        h4 == HandleJvmtiError(o.errs[4],
                               "Failed to set heap sampling interval", o.lookup)
        c4 == c3 \o <<"SetHeapSamplingInterval">> \o h4.calls
        r4 == r3 \o h4.reports
    IN
    IF h4.failed
    THEN [status |-> JNI_ERR, calls |-> c4, reports |-> r4, vm |-> vm4]
    ELSE [status |-> JNI_OK, calls |-> c4, reports |-> r4, vm |-> vm4]

\* One run of Agent_OnAttach on JVM state vm under outcomes o: the status
\* returned, the host calls made in order, the lines written to stderr and
\* the JVM state left behind.
Agent_OnAttach(vm, o) ==
    IF o.getEnv # JNI_OK
    THEN [status |-> JNI_ERR, calls |-> <<"GetEnv">>,
          reports |-> <<[kind |-> "error", err |-> o.getEnv, desc |-> "",
                         msg |-> "Error retrieving JVMTI function table"]>>,
          vm |-> vm]
    ELSE
    LET vm1 == AddCapabilities(vm, o.errs[1])
        h1 == HandleJvmtiError(o.errs[1], "Failed to add JVMTI capabilities",
                               o.lookup)
        c1 == <<"GetEnv", "AddCapabilities">> \o h1.calls
    IN
    IF h1.failed
    THEN [status |-> JNI_ERR, calls |-> c1, reports |-> h1.reports, vm |-> vm1]
    ELSE
    LET vm2 == SetEventCallbacks(vm1, o.errs[2])
        h2 == HandleJvmtiError(o.errs[2], "Failed to set JVMTI callbacks",
                               o.lookup)
        c2 == c1 \o <<"SetEventCallbacks">> \o h2.calls
        r2 == h1.reports \o h2.reports
    IN
    IF h2.failed
    THEN [status |-> JNI_ERR, calls |-> c2, reports |-> r2, vm |-> vm2]
    ELSE
    LET vm3 == SetHeapSamplingInterval(vm2, kHeapSamplingInterval, o.errs[3])
        h3 == HandleJvmtiError(o.errs[3],
                               "Failed to set heap sampling interval", o.lookup)
        c3 == c2 \o <<"SetHeapSamplingInterval">> \o h3.calls
        r3 == r2 \o h3.reports
    IN
    IF h3.failed
    THEN [status |-> JNI_ERR, calls |-> c3, reports |-> r3, vm |-> vm3]
    ELSE
    LET vm4 == SetEventNotificationMode(vm3, o.errs[4])
        h4 == HandleJvmtiError(o.errs[4], "Failed to enable JVMTI events",
                               o.lookup)
        c4 == c3 \o <<"SetEventNotificationMode">> \o h4.calls
        r4 == r3 \o h4.reports
    IN
    IF h4.failed
    THEN [status |-> JNI_ERR, calls |-> c4, reports |-> r4, vm |-> vm4]
    ELSE [status |-> JNI_OK, calls |-> c4, reports |-> r4, vm |-> vm4]

\* Agent_OnLoad returning success without running the initialization.
Agent_OnLoad_Skips(vm, o) ==
    [status |-> JNI_OK, calls |-> <<>>, reports |-> <<>>, vm |-> vm]

\* Agent_OnLoad: hands its arguments to Agent_OnAttach.
Agent_OnLoad(vm, o) == Agent_OnAttach(vm, o)

\* ------------------------------------------------------------ the counter

\* The body of SampledObjectAlloc on the calling thread's counter:
\* thread_allocations += std::max(kHeapSamplingIntervalLong, size).
SampledObjectAlloc(counter, size) ==
    JlongAdd(counter, StdMax(kHeapSamplingIntervalLong, size))

\* The counter declared static without thread_local: one cell for all threads.
WriteShared(cells, t, v) == [u \in DOMAIN cells |-> v]

\* thread_local storage: a write by thread t reaches t's own cell only.
WriteThreadLocal(cells, t, v) == [cells EXCEPT ![t] = v]

\* countAllocationsForCurrentThread as a read that also clears the counter.
CountAndReset(cells, t) ==
    [result |-> cells[t], cells |-> [cells EXCEPT ![t] = FromInt(0)]]

\* The body of countAllocationsForCurrentThread on thread t: the value it
\* returns and the cells it leaves.
CountAllocationsForCurrentThread(cells, t) ==
    [result |-> cells[t], cells |-> cells]

\* ------------------------------------------------------------------ state

VARIABLES
    thread_allocations, \* thread -> its thread_local jlong
    vm,                 \* the JVM state the initialization changes
    aborted,            \* the process was ended by a trap
    inits,              \* runs of the initialization so far
    notifications,      \* thread -> notifications delivered on it
    expected,           \* thread -> the mathematical sum of max(I, s_i)
    queried,            \* thread -> <<r>> when its latest query, made after
                        \* its latest notification, returned r; else <<>>
    last                \* the latest operation, its inputs and its results

vars ==
    <<thread_allocations, vm, aborted, inits, notifications, expected,
      queried, last>>

RECURSIVE SumOver(_, _)
SumOver(f, S) ==
    IF S = {} THEN 0
    ELSE LET x == CHOOSE y \in S : TRUE IN f[x] + SumOver(f, S \ {x})

Init ==
    /\ thread_allocations = [t \in Threads |-> FromInt(0)]
    /\ vm = FreshVm
    /\ aborted = FALSE
    /\ inits = 0
    /\ notifications = [t \in Threads |-> 0]
    /\ expected = [t \in Threads |-> FromInt(0)]
    /\ queried = [t \in Threads |-> <<>>]
    /\ last = [op |-> "none"]

\* The JVM delivers the event only once it is enabled with the capability
\* held and the callback registered.
Sampling ==
    /\ vm.mode = "enabled for all threads"
    /\ vm.callbacks = "SampledObjectAlloc"
    /\ "can_generate_sampled_object_alloc_events" \in vm.capabilities

Initialize(entry, r, o) ==
    /\ vm' = r.vm
    /\ inits' = inits + 1
    /\ last' = [op |-> entry, o |-> o, before |-> vm, status |-> r.status,
                calls |-> r.calls, reports |-> r.reports]
    /\ UNCHANGED <<thread_allocations, aborted, notifications, expected,
                   queried>>

\* The JVM calls Agent_OnAttach.
AttachAgent ==
    /\ ~aborted
    /\ inits < MaxInits
    /\ \E o \in Outcomes : Initialize("Agent_OnAttach", Agent_OnAttach(vm, o), o)

\* The JVM calls Agent_OnLoad.
LoadAgent ==
    /\ ~aborted
    /\ inits < MaxInits
    /\ \E o \in Outcomes : Initialize("Agent_OnLoad", Agent_OnLoad(vm, o), o)

\* The JVM calls SampledObjectAlloc on thread t with a reported size.
Notify ==
    /\ ~aborted
    /\ Sampling
    /\ SumOver(notifications, Threads) < MaxNotifs
    /\ \E t \in Threads, size \in Sizes :
         \E r \in SampledObjectAlloc(thread_allocations[t], size) :
            /\ thread_allocations' = WriteThreadLocal(thread_allocations, t, r.value)
            /\ aborted' = r.trapped
            /\ notifications' = [notifications EXCEPT ![t] = @ + 1]
            /\ expected' =
                 [expected EXCEPT
                    ![t] = BigAdd(@, IF BigLess(size, kHeapSamplingIntervalLong)
                                     THEN kHeapSamplingIntervalLong ELSE size)]
            /\ queried' = [queried EXCEPT ![t] = <<>>]
            /\ last' = [op |-> "SampledObjectAlloc", thread |-> t, size |-> size,
                        trapped |-> r.trapped]
            /\ UNCHANGED <<vm, inits>>

\* Java code on thread t calls countAllocationsForCurrentThread.
Query ==
    /\ ~aborted
    /\ \E t \in Threads :
         LET r == CountAllocationsForCurrentThread(thread_allocations, t)
         IN  /\ thread_allocations' = r.cells
             /\ queried' = [queried EXCEPT ![t] = <<r.result>>]
             /\ last' = [op |-> "countAllocationsForCurrentThread",
                         thread |-> t, result |-> r.result,
                         previous |-> queried[t]]
             /\ UNCHANGED <<vm, aborted, inits, notifications, expected>>

Next == AttachAgent \/ LoadAgent \/ Notify \/ Query

Spec == Init /\ [][Next]_vars

\* ----------------------------------------------------------------- claims

\* max in the integers, as the specification writes it.
MathMax(a, b) == IF BigLeq(a, b) THEN b ELSE a

IsNotify(l) == l.op = "SampledObjectAlloc"
IsQuery(l) == l.op = "countAllocationsForCurrentThread"
IsInit(l) == l.op \in {"Agent_OnAttach", "Agent_OnLoad"}

\* C1: a notification with reported size s on a thread increases that thread's
\* counter by exactly max(262144, s), for every 64-bit s and every counter
\* value the thread can have reached.
C1_NotificationAddsMax ==
    [][IsNotify(last') =>
         thread_allocations'[last'.thread] =
            BigAdd(thread_allocations[last'.thread],
                   MathMax(kHeapSamplingIntervalLong, last'.size))]_vars

\* C2: a query returns the sum of max(262144, s_i) over the notifications the
\* calling thread has received, whatever was interleaved.
C2_QueryReturnsSum ==
    IsQuery(last) => last.result = expected[last.thread]

\* C3: a notification on one thread leaves every other thread's counter, and
\* so the value its query returns, unchanged; a query returns the calling
\* thread's own counter.
C3_ThreadsIndependent ==
    [][/\ IsNotify(last') =>
            \A u \in Threads \ {last'.thread} :
               /\ thread_allocations'[u] = thread_allocations[u]
               /\ CountAllocationsForCurrentThread(thread_allocations', u).result
                    = CountAllocationsForCurrentThread(thread_allocations, u).result
       /\ IsQuery(last') =>
            last'.result = thread_allocations[last'.thread]]_vars

\* C3 witness: a notification has just arrived on one thread while the other
\* thread holds a different, non-zero count of its own.
C3_Witness ==
    /\ IsNotify(last)
    /\ ~aborted
    /\ \E u \in Threads \ {last.thread} :
          /\ notifications[u] > 0
          /\ thread_allocations[u] # thread_allocations[last.thread]

\* C4: a thread's 64-bit counter never decreases.
C4_CounterMonotonic ==
    [][\A t \in Threads :
          BigLeq(thread_allocations[t], thread_allocations'[t])]_vars

\* C10: a query returns the calling thread's counter, 0 when the thread has had
\* no notification, changes no counter, and repeats the value of the thread's
\* previous query when no notification arrived on the thread in between.
C10_QueryIsPureRead ==
    [][IsQuery(last') =>
         /\ last'.result = thread_allocations[last'.thread]
         /\ thread_allocations' = thread_allocations
         /\ notifications[last'.thread] = 0 => last'.result = FromInt(0)
         /\ last'.previous # <<>> => last'.previous[1] = last'.result]_vars

\* C10 witness: a thread that has received notifications is queried a second
\* time, after operations of the other thread, with no notification of its own
\* in between.
C10_Witness ==
    /\ IsQuery(last)
    /\ last.previous # <<>>
    /\ notifications[last.thread] > 0
    /\ \E u \in Threads \ {last.thread} : notifications[u] > 0

\* The steps of the initialization in the order the specification gives them;
\* step 0 obtains the JVMTI handle.
InitSteps == <<"GetEnv">> \o StepNames
StepIndex(name) == (CHOOSE i \in 1..Len(InitSteps) : InitSteps[i] = name) - 1
IsStep(name) == \E i \in 1..Len(InitSteps) : InitSteps[i] = name
StepCalls(calls) == SelectSeq(calls, IsStep)
Count(calls, name) == Cardinality({i \in 1..Len(calls) : calls[i] = name})

\* The step that fails under outcomes o; NumSteps + 1 when none does.
Failing(o) == FirstFailure(o)
Fails(o) == Failing(o) <= NumSteps

\* The description the code gives each JVMTI step in its report.
StepMessages ==
    <<"Failed to add JVMTI capabilities", "Failed to set JVMTI callbacks",
      "Failed to set heap sampling interval", "Failed to enable JVMTI events">>

\* C5: when step k fails the initialization returns JNI_ERR, no step after k
\* is called and no step is called twice.
C5_AbortsAtFailingStep ==
    (IsInit(last) /\ Fails(last.o)) =>
        /\ last.status = JNI_ERR
        /\ \A i \in 1..Len(last.calls) :
              IsStep(last.calls[i]) => StepIndex(last.calls[i]) <= Failing(last.o)
        /\ \A i \in 1..Len(InitSteps) : Count(last.calls, InitSteps[i]) <= 1
        /\ Count(last.calls, InitSteps[Failing(last.o) + 1]) = 1

\* C5 witness: AddCapabilities has failed, and the three later steps were
\* not called.
C5_Witness ==
    /\ IsInit(last)
    /\ Failing(last.o) = 1
    /\ last.status = JNI_ERR
    /\ StepCalls(last.calls) = <<"GetEnv", "AddCapabilities">>

\* C6 as stated: after a failed initialization the host state equals the host
\* state before it.
C6_NoPartialState ==
    (IsInit(last) /\ Fails(last.o)) => vm = last.before

\* The host state with the effects of the steps before step k added to vm0.
AfterStepsBefore(vm0, k) ==
    [capabilities |->
        IF k > 1
        THEN vm0.capabilities \cup {"can_generate_sampled_object_alloc_events"}
        ELSE vm0.capabilities,
     callbacks |-> IF k > 2 THEN "SampledObjectAlloc" ELSE vm0.callbacks,
     interval |-> IF k > 3 THEN <<262144>> ELSE vm0.interval,
     mode |-> vm0.mode]

\* C6 amended: after an initialization that fails at step k the host holds
\* what the steps before k established and nothing of step k or later; the
\* earlier steps are not undone.
C6_EarlierStepsRetained ==
    (IsInit(last) /\ Fails(last.o)) =>
        /\ last.status = JNI_ERR
        /\ vm = AfterStepsBefore(last.before, Failing(last.o))
        /\ Failing(last.o) <= 1 => vm = last.before

\* C6 witness: enabling the event failed on a fresh JVM, and the capability,
\* the callback and the interval of the earlier steps are still in place.
C6_Witness ==
    /\ IsInit(last)
    /\ Failing(last.o) = NumSteps
    /\ last.before = FreshVm
    /\ vm # last.before
    /\ vm.interval = <<262144>>

\* C7: a failed initialization writes exactly one report, for the failing
\* step: a failed JVMTI call is reported with the step's description, the
\* error code and its name, or "Unknown" when the name lookup fails, and the
\* name is looked up once; an initialization with no failure writes nothing
\* and looks no name up.
C7_OneReportPerFailure ==
    IsInit(last) =>
        LET k == Failing(last.o)
        IN  /\ k = 0 =>
                 /\ Len(last.reports) = 1
                 /\ last.reports[1].msg = "Error retrieving JVMTI function table"
                 /\ Count(last.calls, "GetErrorName") = 0
            /\ (k >= 1 /\ k <= NumSteps) =>
                 /\ last.reports =
                       <<[kind |-> "JVMTI error", err |-> last.o.errs[k],
                          desc |-> IF last.o.lookup
                                   THEN ErrorNameOf(last.o.errs[k])
                                   ELSE "Unknown",
                          msg |-> StepMessages[k]]>>
                 /\ Count(last.calls, "GetErrorName") = 1
            /\ k > NumSteps =>
                 /\ last.reports = <<>>
                 /\ Count(last.calls, "GetErrorName") = 0

\* C7 witness: a JVMTI step after a successful one failed and the lookup of
\* the error's name failed too.
C7_Witness ==
    /\ IsInit(last)
    /\ Failing(last.o) >= 2 /\ Failing(last.o) <= NumSteps
    /\ ~last.o.lookup
    /\ Len(last.reports) = 1
    /\ last.reports[1].desc = "Unknown"

\* C8: Agent_OnLoad makes the host calls, writes the reports, returns the
\* status and leaves the host state that Agent_OnAttach does on the same
\* arguments and host outcomes.
C8_OnLoadSameAsOnAttach ==
    last.op = "Agent_OnLoad" =>
        LET r == Agent_OnAttach(last.before, last.o)
        IN  /\ last.calls = r.calls
            /\ last.reports = r.reports
            /\ last.status = r.status
            /\ vm = r.vm

\* C8 witness: Agent_OnLoad ran into a failing JVMTI step and reported it.
C8_Witness ==
    /\ last.op = "Agent_OnLoad"
    /\ last.status = JNI_ERR
    /\ Len(last.reports) = 1
    /\ Failing(last.o) >= 1

\* C9: the initialization returns JNI_OK exactly when all five steps succeed,
\* the steps it calls are a prefix of the fixed order, and the event is
\* enabled, for all threads, only with the capability added, the callback
\* registered and the interval set to 262144.
C9_OrderAndSuccess ==
    /\ IsInit(last) =>
         /\ last.status = JNI_OK <=> ~Fails(last.o)
         /\ last.status \in {JNI_OK, JNI_ERR}
         /\ StepCalls(last.calls) =
               SubSeq(InitSteps, 1, Len(StepCalls(last.calls)))
         /\ last.status = JNI_OK => StepCalls(last.calls) = InitSteps
    /\ vm.mode # "disabled" =>
         /\ vm.mode = "enabled for all threads"
         /\ "can_generate_sampled_object_alloc_events" \in vm.capabilities
         /\ vm.callbacks = "SampledObjectAlloc"
         /\ vm.interval = <<262144>>

\* C9 witness: an initialization has succeeded on a JVM an earlier, failed
\* initialization left partly set up.
C9_Witness ==
    /\ IsInit(last)
    /\ last.status = JNI_OK
    /\ last.before # FreshVm
    /\ last.before.mode = "disabled"
    /\ vm.mode = "enabled for all threads"

====
